---- MODULE Spec2Model ----
(***************************************************************************)
(* Model of src/server/app.py: the scan orchestrator (POST /api/scan), the *)
(* finding normalizer (simplify_alerts), the severity model                *)
(* (risk_to_score and the bucket comprehension), the process-wide report   *)
(* store (last_scan) and its readers (chat, PDF download), and the         *)
(* progress query.                                                         *)
(***************************************************************************)
EXTENDS Integers, Sequences, FiniteSets, TLC

(***************************************************************************)
(* Python values.  None stands for Python's None and for an absent key     *)
(* (dict.get returns None in both cases); "" is the empty string.  Both    *)
(* are falsy.                                                              *)
(***************************************************************************)
None == "<None>"

Truthy(v) == v # None /\ v # ""

\* Python's `a or b`: a when a is truthy, else b.
Or(a, b) == IF Truthy(a) THEN a ELSE b

(***************************************************************************)
(* Raw findings.  A raw finding is a dict with arbitrary optional keys;    *)
(* the keys the program reads are the fields below.                        *)
(***************************************************************************)
Blank ==
    [alert |-> None, name |-> None,
     risk |-> None, riskdesc |-> None, severity |-> None,
     description |-> None, desc |-> None, evidence |-> None,
     solution |-> None, solutions |-> None,
     reference |-> None, references |-> None,
     url |-> None, uri |-> None, param |-> None]

WafName == "Missing WAF/Firewall headers"

XssX == [Blank EXCEPT !.alert = "XSS", !.risk = "High", !.url = "http://a/x"]
XssY == [Blank EXCEPT !.alert = "XSS", !.risk = "High", !.url = "http://a/y"]
Sqli == [Blank EXCEPT !.alert = "SQLi", !.risk = "Critical"]
XssRich ==
    [Blank EXCEPT !.name = "XSS", !.riskdesc = "Medium", !.description = "d1",
                  !.solution = "s1", !.reference = "ref1", !.param = "q"]
XssUriOnly == [Blank EXCEPT !.alert = "XSS", !.uri = "http://a/x"]
XssUrlOnly == [Blank EXCEPT !.alert = "XSS", !.url = "http://a/y"]
NoName ==
    [Blank EXCEPT !.severity = "Low", !.desc = "d2", !.param = "q",
                  !.url = "http://a/x"]
EmptyName ==
    [Blank EXCEPT !.alert = "", !.url = "", !.evidence = "e1",
                  !.solutions = "s2", !.references = "ref2", !.param = "p2"]
WafHigh == [Blank EXCEPT !.alert = WafName, !.risk = "High", !.description = "d3"]
SqlInjection ==
    [Blank EXCEPT !.alert = "SQL Injection", !.risk = "High", !.param = "id"]

RawPool ==
    {XssX, XssY, Sqli, XssRich, XssUriOnly, XssUrlOnly, NoName, EmptyName,
     WafHigh}

(***************************************************************************)
(* risk_to_score                                                           *)
(***************************************************************************)
risk_to_score(risk) ==
    CASE risk = "High" -> 9
      [] risk = "Medium" -> 6
      [] risk = "Low" -> 3
      [] risk = "Informational" -> 1
      [] risk = "Critical" -> 10
      [] OTHER -> 0

(***************************************************************************)
(* simplify_alerts.  `grouped` is the defaultdict, kept as the sequence of *)
(* its entries in insertion order (a Python dict iterates in insertion     *)
(* order).                                                                 *)
(***************************************************************************)
NewGroup(name) ==
    [name |-> name, urls |-> <<>>, params |-> <<>>, risk |-> None,
     description |-> "", solution |-> "", reference |-> ""]

\* every raw finding opens a group of its own
IndexOfNothing(grouped, name, i) == 0

RECURSIVE IndexOf(_, _, _)
\* the position of the entry keyed `name` at or after position i, 0 if none
IndexOf(grouped, name, i) ==
    IF i > Len(grouped) THEN 0
    ELSE IF grouped[i].name = name THEN i
    ELSE IndexOf(grouped, name, i + 1)

ResolveName(a) == Or(Or(a.alert, a.name), "Unknown")
ResolveRisk(a) == Or(Or(Or(a.risk, a.riskdesc), a.severity), "Informational")
ResolveDesc(a) == Or(Or(Or(Or(a.description, a.desc), a.evidence), a.url), "")
ResolveSolution(a) == Or(Or(a.solution, a.solutions), "")
ResolveReference(a) == Or(Or(a.reference, a.references), "")
ResolveUrl(a) == Or(a.url, a.uri)

\* the body of the loop over alerts: one raw finding folded into `grouped`
FoldAlert(grouped, a) ==
    LET name == ResolveName(a)
        at == IndexOf(grouped, name, 1)
        g0 == IF at = 0 THEN Append(grouped, NewGroup(name)) ELSE grouped
        k == IF at = 0 THEN Len(g0) ELSE at
        e == g0[k]
        desc == ResolveDesc(a)
        solution == ResolveSolution(a)
        reference == ResolveReference(a)
        url == ResolveUrl(a)
        e1 == [e EXCEPT
                 !.risk = ResolveRisk(a),
                 !.description = IF Truthy(desc) THEN desc ELSE @,
                 !.solution = IF Truthy(solution) THEN solution ELSE @,
                 !.reference = IF Truthy(reference) THEN reference ELSE @,
                 !.urls = IF Truthy(url) THEN Append(@, url) ELSE @,
                 !.params = IF Truthy(a.param) THEN Append(@, a.param) ELSE @]
    IN [g0 EXCEPT ![k] = e1]

RECURSIVE FoldAlerts(_, _, _)
FoldAlerts(grouped, alerts, i) ==
    IF i > Len(alerts) THEN grouped
    ELSE FoldAlerts(FoldAlert(grouped, alerts[i]), alerts, i + 1)

Contains(s, x) == \E i \in 1..Len(s) : s[i] = x

RECURSIVE DedupeFrom(_, _, _)
DedupeFrom(s, i, acc) ==
    IF i > Len(s) THEN acc
    ELSE DedupeFrom(s, i + 1, IF Contains(acc, s[i]) THEN acc ELSE Append(acc, s[i]))

\* list(xs): the list as collected
NoDedupe(s) == s

\* list(dict.fromkeys(xs)): first occurrences, in order
Dedupe(s) == DedupeFrom(s, 1, <<>>)

Simplified(info) ==
    [name |-> info.name, risk |-> info.risk,
     urls |-> Dedupe(info.urls), params |-> Dedupe(info.params),
     description |-> info.description, solution |-> info.solution,
     reference |-> info.reference]

simplify_alerts(alerts) ==
    LET grouped == FoldAlerts(<<>>, alerts, 1)
    IN [i \in 1..Len(grouped) |-> Simplified(grouped[i])]


(***************************************************************************)
(* enrich_suggestions.  The match is `key.lower() in name.lower()`; over   *)
(* the finding names of this model the only name that contains a key of    *)
(* CUSTOM_SUGGESTIONS is "SQL Injection".                                  *)
(***************************************************************************)
CUSTOM_SUGGESTIONS ==
    << <<"Cross Site Scripting", "Validate and sanitize inputs.">>,
       <<"SQL Injection", "Use parameterized queries/ORM.">>,
       <<"Insecure Cookies", "Enable HttpOnly, Secure, SameSite.">>,
       <<"CSP", "Add strong Content-Security-Policy headers.">>,
       <<"CORS", "Restrict allowed origins.">> >>

KeyInName(key, name) == <<key, name>> \in {<<"SQL Injection", "SQL Injection">>}

RECURSIVE FirstSuggestion(_, _)
FirstSuggestion(name, i) ==
    IF i > Len(CUSTOM_SUGGESTIONS) THEN None
    ELSE IF KeyInName(CUSTOM_SUGGESTIONS[i][1], name) THEN CUSTOM_SUGGESTIONS[i][2]
    ELSE FirstSuggestion(name, i + 1)

\* extra_suggestion is None when the key is not set
enrich_suggestions(alert) ==
    [name |-> alert.name, risk |-> alert.risk, urls |-> alert.urls,
     params |-> alert.params, description |-> alert.description,
     solution |-> alert.solution, reference |-> alert.reference,
     score |-> alert.score,
     extra_suggestion |-> FirstSuggestion(Or(alert.name, ""), 1)]

\* lines 196-199 of scan: score, then suggestion, for each simplified finding
Scored(a) ==
    enrich_suggestions(
        [name |-> a.name, risk |-> a.risk, urls |-> a.urls, params |-> a.params,
         description |-> a.description, solution |-> a.solution,
         reference |-> a.reference, score |-> risk_to_score(a.risk)])

Finalize(simplified) == [i \in 1..Len(simplified) |-> Scored(simplified[i])]

\* a bucket table that leaves score 6 out of every list
BucketsOfWithGap(score) ==
    {b \in {"Critical", "High", "Medium", "Low"} :
        \/ b = "Critical" /\ score >= 9
        \/ b = "High" /\ 6 < score /\ score < 9
        \/ b = "Medium" /\ 3 <= score /\ score < 6
        \/ b = "Low" /\ score < 3}

\* lines 201-206 of scan: the lists of `grouped` a score is put in
BucketsOf(score) ==
    {b \in {"Critical", "High", "Medium", "Low"} :
        \/ b = "Critical" /\ score >= 9
        \/ b = "High" /\ 6 <= score /\ score < 9
        \/ b = "Medium" /\ 3 <= score /\ score < 6
        \/ b = "Low" /\ score < 3}

\* line 213: {k: len(v) for k, v in grouped.items()}
Summary(final) ==
    [b \in {"Critical", "High", "Medium", "Low"} |->
        Cardinality({i \in 1..Len(final) : b \in BucketsOf(final[i].score)})]

(***************************************************************************)
(* Request inputs.                                                         *)
(***************************************************************************)
\* the body's "url" value; "" is also what data.get('url', '') gives when the
\* key is missing
UrlInputs ==
    {"", "   ", "not a url", "a.test", "http://a.test", " http://a.test "}

\* str.strip()
Strip(s) ==
    CASE s = "   " -> ""
      [] s = " http://a.test " -> "http://a.test"
      [] OTHER -> s

\* a validator that lets every text through
AnyUrl(s) == TRUE

\* validators.url: an absolute URL with a scheme and a host
ValidUrl(s) == s \in {"http://a.test"}

StartsWithHttp(s) == s \in {"http://a.test"}

\* lines 107-108 of spider_and_get_alerts
SpiderTarget(target) ==
    IF StartsWithHttp(target) THEN target
    ELSE CASE target = "a.test" -> "http://a.test"
           [] OTHER -> target

Levels == {-1, 0, 1, 2, 3, 4}

(***************************************************************************)
(* The scan engine (ZAP), the narration service and the clock are the      *)
(* environment: every call returns one of the replies below or raises.     *)
(***************************************************************************)
EngineErrors == {"ZAP unreachable"}

JobIds == {"7"}

\* what spider.status / ascan.status return: a percentage, or an error code
StatusReplies == {"0", "100", "does_not_exist"}

IsInt(s) == s \in {"0", "100"}

\* int(s) for the replies above
ToInt(s) ==
    CASE s = "0" -> 0
      [] s = "100" -> 100

\* what core.alerts returns: a list of raw findings, or (first value of an
\* error body) a string
ListReply(items) == [kind |-> "list", items |-> items]
TextReply == [kind |-> "text", items |-> <<>>]

AlertReplies ==
    {ListReply(<<>>),
     ListReply(<<XssX, XssY, Sqli>>),
     ListReply(<<WafHigh, SqlInjection>>),
     TextReply}

AiErrors == {"quota exceeded"}
AiTexts == {<<"advice">>}

\* f"[AI summary unavailable: {e}]"
AiUnavailable(e) == <<"[AI summary unavailable: ", e, "]">>

Timestamps == {"2026-01-01 00:00:00 UTC"}

\* time one status call takes, in time units
Latencies == {19, 29, 60}

SpiderTimeout == 60
AscanTimeout == 90
PollSleep == 1

SyntheticAlert(target) ==
    [Blank EXCEPT
        !.alert = WafName, !.risk = "Medium", !.url = target,
        !.description = "Response lacks typical WAF headers.",
        !.solution = "Deploy a WAF or reverse proxy.",
        !.reference = "https://owasp.org/www-project-top-ten/"]

(***************************************************************************)
(* The report store: the module-level dict last_scan.                      *)
(***************************************************************************)
EmptyDict == <<>>

\* dict.update(other)
DictUpdate(d, other) ==
    [k \in (DOMAIN d) \cup (DOMAIN other) |->
        IF k \in DOMAIN other THEN other[k] ELSE d[k]]

\* dict.get(k, default)
DictGet(d, k, default) == IF k \in DOMAIN d THEN d[k] ELSE default


(***************************************************************************)
(* State.                                                                  *)
(***************************************************************************)
VARIABLES
    last_scan,    \* the report store
    stored,       \* history: a scan has installed a report
    pc,           \* position of the scan request handler
    target,       \* scan: local `target`
    level,        \* scan: local `level`
    alerts,       \* scan: local `alerts` (a reply of core.alerts)
    ascan_id,     \* scan: local `ascan_id`
    elapsed,      \* time since `start` of the polling loop being run
    final,        \* scan: local `final`
    report,       \* scan: local `report`
    scanResp,     \* the response of the last scan request
    storeBefore,  \* history: the store when the scan request arrived
    engineCalls,  \* history: engine calls made for the scan request
    ascanOutcome, \* history: how the active-scan loop of the request ended
    injected,     \* history: synthetic findings appended for the request
    narration,    \* history: how the narration call of the request ended
    fetched,      \* history, until the report is built: the replies of core.alerts
    spiderReadFailed, \* history, while spider_and_get_alerts runs: a status read failed
    rd,           \* the other request being handled: PDF download, chat, progress
    rawIn,        \* normalizer check: the input list
    normOut,      \* normalizer check: simplify_alerts(rawIn), then scored
    normPc        \* normalizer check: "off", "input", "simplified", "scored"

scanVars ==
    <<pc, target, level, alerts, ascan_id, elapsed, final, report,
      scanResp, storeBefore, engineCalls, ascanOutcome, injected, narration,
      fetched, spiderReadFailed>>

normVars == <<rawIn, normOut, normPc>>

vars == <<last_scan, stored, scanVars, rd, normVars>>

NoResp == [status |-> 0, body |-> <<>>]
ErrorResp(code, text) == [status |-> code, body |-> [error |-> text]]
OkResp(body) == [status |-> 200, body |-> body]

NoReply == ListReply(<<>>)

RdIdle == [kind |-> "none", pc |-> "idle", out |-> <<>>, status |-> 0]

Init ==
    /\ last_scan = EmptyDict
    /\ stored = FALSE
    /\ pc = "idle"
    /\ target = ""
    /\ level = 1
    /\ alerts = NoReply
    /\ ascan_id = None
    /\ elapsed = 0
    /\ final = <<>>
    /\ report = EmptyDict
    /\ scanResp = NoResp
    /\ storeBefore = EmptyDict
    /\ engineCalls = {}
    /\ ascanOutcome = "none"
    /\ injected = 0
    /\ narration = "none"
    /\ fetched = <<>>
    /\ spiderReadFailed = FALSE
    /\ rd = RdIdle
    /\ rawIn = <<>>
    /\ normOut = <<>>
    /\ normPc = "off"

(***************************************************************************)
(* POST /api/scan                                                          *)
(***************************************************************************)
\* the handler returns: its locals other than the request's inputs are gone
Return(resp) ==
    /\ pc' = "done"
    /\ scanResp' = resp
    /\ alerts' = NoReply
    /\ ascan_id' = None
    /\ elapsed' = 0
    /\ final' = <<>>
    /\ report' = EmptyDict
    /\ fetched' = <<>>
    /\ spiderReadFailed' = FALSE

\* a handler that drops the cached report when a scan fails
FailClearing(text) ==
    /\ Return(ErrorResp(500, text))
    /\ last_scan' = EmptyDict

\* lines 226-227: the except clause of scan
Fail(text) ==
    /\ Return(ErrorResp(500, text))
    /\ last_scan' = last_scan

\* the handler goes on to its next step; the step says which locals it sets
Goto(next, set) ==
    /\ pc' = next
    /\ UNCHANGED <<scanResp, last_scan>>
    /\ "alerts" \in set \/ alerts' = alerts
    /\ "ascan_id" \in set \/ ascan_id' = ascan_id
    /\ "elapsed" \in set \/ elapsed' = elapsed
    /\ "final" \in set \/ final' = final
    /\ "report" \in set \/ report' = report
    /\ "fetched" \in set \/ fetched' = fetched
    /\ "spiderReadFailed" \in set \/ spiderReadFailed' = spiderReadFailed

Called(op, arg) == engineCalls' = engineCalls \cup {<<op, arg>>}

\* lines 159-164: read the body, validate the URL
ScanRequest(url, lvl) ==
    /\ pc \in {"idle", "done"}
    /\ rd.pc \in {"idle", "done"}
    /\ target' = Strip(url)
    /\ level' = lvl
    /\ storeBefore' = last_scan
    /\ engineCalls' = {}
    /\ ascanOutcome' = "none"
    /\ injected' = 0
    /\ narration' = "none"
    /\ IF ~Truthy(target') \/ ~ValidUrl(target')
       THEN /\ Return(ErrorResp(400, "Invalid or missing URL"))
            /\ last_scan' = last_scan
       ELSE /\ pc' = "open"
            /\ scanResp' = NoResp
            /\ last_scan' = last_scan
            /\ UNCHANGED <<alerts, ascan_id, elapsed, final, report, fetched,
                           spiderReadFailed>>
    /\ UNCHANGED <<stored, rd, normVars>>

\* lines 107-110: zap.urlopen
SpiderOpen ==
    /\ pc = "open"
    /\ Called("urlopen", SpiderTarget(target))
    /\ \/ Goto("spider_start", {})
       \/ \E e \in EngineErrors : Fail(e)
    /\ UNCHANGED <<stored, target, level, storeBefore, ascanOutcome, injected, narration,
                   rd, normVars>>

\* lines 112-113: zap.spider.scan, start = time.time()
SpiderStart ==
    /\ pc = "spider_start"
    /\ Called("spider.scan", SpiderTarget(target))
    /\ \/ /\ Goto("spider_poll", {"elapsed"})
          /\ elapsed' = 0
       \/ \E e \in EngineErrors : Fail(e)
    /\ UNCHANGED <<stored, target, level, storeBefore, ascanOutcome, injected, narration,
                   rd, normVars>>

\* a failed status read ends the polling as if the spider were done
SpiderStatusDoneOnError(reply) == IF IsInt(reply) THEN ToInt(reply) ELSE 100

\* lines 115-118: a status read that raises, or whose text is no integer, counts as 0
SpiderStatus(reply) == IF IsInt(reply) THEN ToInt(reply) ELSE 0

\* the time since `start` taken from a seconds field, which wraps at 60
AfterSleepWrapping(now) == (now + PollSleep) % 60

\* lines 122 and 178: time.sleep(1); the time since `start` when the next
\* iteration begins
AfterSleep(now) == now + PollSleep

\* lines 114-122: one iteration of the spider polling loop, the status read
\* answering `reply` after `lat` time units
SpiderPollOn(reply, lat) ==
    /\ pc = "spider_poll"
    /\ Called("spider.status", "spider")
    /\ LET status == SpiderStatus(reply)
           now == elapsed + lat
       IN IF status >= 100 \/ now > SpiderTimeout
          THEN /\ Goto("spider_fetch", {"elapsed", "spiderReadFailed"})
               /\ elapsed' = 0
          ELSE /\ Goto("spider_poll", {"elapsed", "spiderReadFailed"})
               /\ elapsed' = AfterSleep(now)
    /\ spiderReadFailed' = (spiderReadFailed \/ ~IsInt(reply))
    /\ UNCHANGED <<stored, target, level, storeBefore, ascanOutcome, injected, narration,
                   rd, normVars>>

SpiderPoll ==
    \E reply \in StatusReplies \cup EngineErrors, lat \in Latencies :
        SpiderPollOn(reply, lat)

ActiveScanFromLevelOne(lvl) == lvl >= 1

\* line 172: `if level >= 2`
ActiveScanWanted(lvl) == lvl >= 2

\* lines 125-126 and 168: zap.core.alerts(baseurl=target)
SpiderFetch ==
    /\ pc = "spider_fetch"
    /\ Called("core.alerts", SpiderTarget(target))
    /\ \/ \E r \in AlertReplies :
            /\ alerts' = r
            /\ fetched' = Append(fetched, r)
            /\ spiderReadFailed' = FALSE
            /\ Goto(IF ActiveScanWanted(level) THEN "ascan_start" ELSE "normalize",
                    {"alerts", "fetched", "spiderReadFailed"})
       \/ \E e \in EngineErrors : Fail(e)
    /\ UNCHANGED <<stored, target, level, storeBefore, ascanOutcome, injected, narration,
                   rd, normVars>>

\* lines 171-174: zap.ascan.scan, start = time.time()
AscanStart ==
    /\ pc = "ascan_start"
    /\ Called("ascan.scan", target)
    /\ \/ \E id \in JobIds :
            /\ ascan_id' = id
            /\ elapsed' = 0
            /\ Goto("ascan_poll", {"ascan_id", "elapsed"})
       \/ \E e \in EngineErrors : Fail(e)
    /\ UNCHANGED <<stored, target, level, storeBefore, ascanOutcome, injected, narration,
                   rd, normVars>>

\* a loop condition with the spider loop's try/except around the status read
AscanStatusTolerant(reply) == [raised |-> FALSE, value |-> SpiderStatus(reply)]

\* line 175: int(zap.ascan.status(ascan_id)), with no handler of its own: a
\* read that raises, or whose text is no integer, raises
AscanStatus(reply) ==
    [raised |-> ~IsInt(reply), value |-> IF IsInt(reply) THEN ToInt(reply) ELSE 0]

\* lines 175-178: one iteration of the active-scan polling loop, the status
\* read answering `reply` after `lat` time units; an exception leaves the try
\* block
AscanPollOn(reply, lat) ==
    /\ pc = "ascan_poll"
    /\ Called("ascan.status", ascan_id)
    /\ LET status == AscanStatus(reply)
           now == elapsed + lat
       IN IF status.raised
          THEN /\ Fail(reply)
               /\ ascanOutcome' = "status_error"
          ELSE IF status.value >= 100
          THEN /\ Goto("ascan_fetch", {"elapsed"})
               /\ elapsed' = 0
               /\ ascanOutcome' = "completed"
          ELSE IF now > AscanTimeout
          THEN /\ Goto("ascan_fetch", {"elapsed"})
               /\ elapsed' = 0
               /\ ascanOutcome' = "timeout"
          ELSE /\ Goto("ascan_poll", {"elapsed"})
               /\ elapsed' = AfterSleep(now)
               /\ UNCHANGED ascanOutcome
    /\ UNCHANGED <<stored, target, level, storeBefore, injected, narration, rd, normVars>>

AscanPoll ==
    \E reply \in StatusReplies \cup EngineErrors, lat \in Latencies :
        AscanPollOn(reply, lat)

\* `alerts += zap.core.alerts(...)`: the refetched findings added to the
\* spidering ones
RefetchedMerged(old, new) ==
    IF old.kind = "list" /\ new.kind = "list" THEN ListReply(old.items \o new.items)
    ELSE new

\* line 180: `alerts = zap.core.alerts(baseurl=target)`, the value of `alerts`
\* after the assignment
Refetched(old, new) == new

\* line 180: refresh alerts
AscanFetch ==
    /\ pc = "ascan_fetch"
    /\ Called("core.alerts", target)
    /\ \/ \E r \in AlertReplies :
            /\ alerts' = Refetched(alerts, r)
            /\ fetched' = Append(fetched, r)
            /\ Goto("normalize", {"alerts", "fetched"})
       \/ \E e \in EngineErrors : Fail(e)
    /\ UNCHANGED <<stored, target, level, storeBefore, ascanOutcome, injected, narration,
                   rd, normVars>>

\* the synthetic finding appended from level 3 up
CollectedFromLevelThree(items, lvl, tgt) ==
    IF lvl >= 3 THEN Append(items, SyntheticAlert(tgt)) ELSE items

CollectedSyntheticFirst(items, lvl, tgt) ==
    IF lvl = 3 THEN <<SyntheticAlert(tgt)>> \o items ELSE items

\* lines 183-193: the level 3 synthetic finding is appended to the raw list
Collected(items, lvl, tgt) ==
    IF lvl = 3 THEN Append(items, SyntheticAlert(tgt)) ELSE items

\* lines 183-206: synthetic finding, simplify_alerts, score, suggestion.
\* A string reply has no append and its characters have no get: both raise.
Normalize ==
    /\ pc = "normalize"
    /\ IF alerts.kind = "text"
       THEN /\ Fail(IF level = 3 THEN "'str' object has no attribute 'append'"
                    ELSE "'str' object has no attribute 'get'")
            /\ UNCHANGED injected
       ELSE LET items == Collected(alerts.items, level, target)
            IN /\ alerts' = ListReply(items)
               /\ injected' = Len(items) - Len(alerts.items)
               /\ final' = Finalize(simplify_alerts(items))
               /\ Goto("narrate", {"alerts", "final"})
    /\ UNCHANGED <<stored, target, level, storeBefore, engineCalls, ascanOutcome,
                   narration, rd, normVars>>

\* what generate_content does: a text, or an exception
AiReplies ==
    {[ok |-> TRUE, text |-> t] : t \in AiTexts}
        \cup {[ok |-> FALSE, text |-> <<e>>] : e \in AiErrors}

EscapesOnError(reply) == ~reply.ok

\* lines 133 and 151: whether an exception leaves ai_analyze (the try covers
\* the whole body and catches Exception)
Escapes(reply) == FALSE

\* lines 131-152
ai_analyze(reply) ==
    IF reply.ok THEN reply.text ELSE AiUnavailable(reply.text[1])

\* lines 210-218
BuildReport(tgt, lvl, fin, ai, ts, id) ==
    [target |-> tgt, level |-> lvl, summary |-> Summary(fin),
     vulnerabilities |-> fin, ai_summary |-> ai, timestamp |-> ts,
     ascan_id |-> id]

\* lines 208-218: narration, then the report dict
Narrate ==
    /\ pc = "narrate"
    /\ \E reply \in AiReplies, ts \in Timestamps :
         /\ narration' = IF reply.ok THEN "ok" ELSE "failed"
         /\ IF Escapes(reply)
            THEN Fail(reply.text[1])
            ELSE /\ report' = BuildReport(target, level, final, ai_analyze(reply), ts,
                                          ascan_id)
                 /\ fetched' = <<>>
                 /\ Goto("clear", {"report", "fetched"})
    /\ UNCHANGED <<stored, target, level, storeBefore, engineCalls, ascanOutcome,
                   injected, rd, normVars>>

\* line 221: last_scan.clear()
StoreClear ==
    /\ pc = "clear"
    /\ last_scan' = EmptyDict
    /\ pc' = "update"
    /\ UNCHANGED <<stored, target, level, alerts, ascan_id, elapsed, final, report,
                   scanResp, storeBefore, engineCalls, ascanOutcome, injected,
                   narration, fetched, spiderReadFailed, rd, normVars>>

\* `last_scan = report` without `global`: the module-level dict is not touched
InstalledLocally(store, rep) == store

\* line 222
Installed(store, rep) == DictUpdate(store, rep)

\* lines 222-224: last_scan.update(report), return jsonify(report)
StoreUpdate ==
    /\ pc = "update"
    /\ last_scan' = Installed(last_scan, report)
    /\ stored' = TRUE
    /\ Return(OkResp(report))
    /\ UNCHANGED <<target, level, storeBefore, engineCalls, ascanOutcome, injected,
                   narration, rd, normVars>>

(***************************************************************************)
(* GET /api/report/pdf                                                     *)
(***************************************************************************)
\* the reads of last_scan in download_report, in order: key, default, next
DocReads ==
    [target |-> <<"target", "Unknown", "timestamp">>,
     timestamp |-> <<"timestamp", "", "summary">>,
     summary |-> <<"summary", <<>>, "vulnerabilities">>,
     vulnerabilities |-> <<"vulnerabilities", <<>>, "ai_summary">>,
     ai_summary |-> <<"ai_summary", <<>>, "send">>]

\* lines 285-286: `if not last_scan`
DocRequest ==
    /\ rd.pc \in {"idle", "done"}
    /\ rd' = IF last_scan = EmptyDict
             THEN [kind |-> "doc", pc |-> "done", out |-> <<>>, status |-> 400]
             ELSE [kind |-> "doc", pc |-> "target", out |-> <<>>, status |-> 0]
    /\ UNCHANGED <<last_scan, stored, scanVars, normVars>>

\* lines 299, 301, 309, 320, 351 (and 366 after the last): one read of last_scan
DocRead ==
    /\ rd.kind = "doc"
    /\ rd.pc \in DOMAIN DocReads
    /\ LET r == DocReads[rd.pc]
       IN rd' = [rd EXCEPT !.out = Append(@, DictGet(last_scan, r[1], r[2])),
                           !.pc = r[3]]
    /\ UNCHANGED <<last_scan, stored, scanVars, normVars>>

\* line 366: send_file; the document leaves the handler
DocSend ==
    /\ rd.kind = "doc"
    /\ rd.pc = "send"
    /\ rd' = [rd EXCEPT !.out = <<>>, !.pc = "done", !.status = 200]
    /\ UNCHANGED <<last_scan, stored, scanVars, normVars>>

(***************************************************************************)
(* POST /api/chat                                                          *)
(***************************************************************************)
Messages == {"", "hi"}

Take(s, n) == [i \in 1..(IF Len(s) < n THEN Len(s) ELSE n) |-> s[i]]

\* line 259: the line of the brief for one finding
BriefLine(v) == <<v.name, v.risk, v.description>>

\* lines 243-256: validate the message, `if include_scan and last_scan`
ChatRequest(message, include_scan) ==
    /\ rd.pc \in {"idle", "done"}
    /\ rd' = IF ~Truthy(message)
             THEN [kind |-> "chat", pc |-> "done", out |-> <<>>, status |-> 400]
             ELSE IF include_scan /\ last_scan # EmptyDict
             THEN [kind |-> "chat", pc |-> "brief_target", out |-> <<>>, status |-> 0]
             ELSE [kind |-> "chat", pc |-> "generate", out |-> <<>>, status |-> 0]
    /\ UNCHANGED <<last_scan, stored, scanVars, normVars>>

\* lines 257-259: the reads of last_scan that build the brief
ChatRead ==
    /\ rd.kind = "chat"
    /\ \/ /\ rd.pc = "brief_target"
          /\ rd' = [rd EXCEPT !.out = Append(@, DictGet(last_scan, "target", None)),
                              !.pc = "brief_summary"]
       \/ /\ rd.pc = "brief_summary"
          /\ rd' = [rd EXCEPT !.out = Append(@, DictGet(last_scan, "summary", <<>>)),
                              !.pc = "brief_findings"]
       \/ /\ rd.pc = "brief_findings"
          /\ LET top == Take(DictGet(last_scan, "vulnerabilities", <<>>), 8)
             IN rd' = [rd EXCEPT
                         !.out = Append(@, [i \in 1..Len(top) |-> BriefLine(top[i])]),
                         !.pc = "generate"]
    /\ UNCHANGED <<last_scan, stored, scanVars, normVars>>

\* lines 262-267: generate_content, reply or 500
ChatGenerate ==
    /\ rd.kind = "chat"
    /\ rd.pc = "generate"
    /\ \E reply \in AiReplies :
         rd' = [rd EXCEPT !.out = <<>>, !.pc = "done",
                          !.status = IF reply.ok THEN 200 ELSE 500]
    /\ UNCHANGED <<last_scan, stored, scanVars, normVars>>

(***************************************************************************)
(* GET /api/progress/<scan_id>                                             *)
(***************************************************************************)
\* a handler that counts a failed status read as 0, as the spider loop does
ProgressTolerant(reply) ==
    [kind |-> "progress", pc |-> "done",
     out |-> <<IF IsInt(reply) THEN ToInt(reply) ELSE 0>>, status |-> 200,
     read |-> reply]

\* lines 231-235: the response for what the one status read gave; `out` is
\* the body's value ("progress" or "error"), `read` (history) the read itself
ProgressResponse(reply) ==
    IF IsInt(reply)
    THEN [kind |-> "progress", pc |-> "done", out |-> <<ToInt(reply)>>,
          status |-> 200, read |-> reply]
    ELSE [kind |-> "progress", pc |-> "done", out |-> <<reply>>, status |-> 500,
          read |-> reply]

\* lines 229-235
GetProgress(scan_id) ==
    /\ rd.pc \in {"idle", "done"}
    /\ \E reply \in StatusReplies \cup EngineErrors : rd' = ProgressResponse(reply)
    /\ UNCHANGED <<last_scan, stored, scanVars, normVars>>

(***************************************************************************)
(* The server (app.run serves each request on a thread): one scan request *)
(* and one other request at a time, their steps interleaved, since the     *)
(* handlers take no lock.  A scan request arrives while no other request   *)
(* is half-way, so a reader overlaps at most one replacement of the store. *)
(***************************************************************************)
Next ==
    \/ \E url \in UrlInputs, lvl \in Levels : ScanRequest(url, lvl)
    \/ SpiderOpen
    \/ SpiderStart
    \/ SpiderPoll
    \/ SpiderFetch
    \/ AscanStart
    \/ AscanPoll
    \/ AscanFetch
    \/ Normalize
    \/ Narrate
    \/ StoreClear
    \/ StoreUpdate
    \/ DocRequest
    \/ DocRead
    \/ DocSend
    \/ \E m \in Messages, inc \in BOOLEAN : ChatRequest(m, inc)
    \/ ChatRead
    \/ ChatGenerate
    \/ \E id \in JobIds : GetProgress(id)

Spec == Init /\ [][Next]_vars

(***************************************************************************)
(* The scan handler on its own thread.  No step of it waits for another    *)
(* request: every engine call returns (with a reply or an exception) and   *)
(* time.sleep returns, so a step of the handler that can be taken is       *)
(* taken.  The other handlers write nothing the scan handler reads.        *)
(* Weak fairness of Normalize is written by its meaning: Normalize can be  *)
(* taken exactly when pc = "normalize" and every step of it leaves that    *)
(* position, so WF_vars(Normalize) is []<>(pc # "normalize").              *)
(***************************************************************************)
ScanSteps ==
    \/ SpiderOpen
    \/ SpiderStart
    \/ SpiderPoll
    \/ SpiderFetch
    \/ AscanStart
    \/ AscanPoll
    \/ AscanFetch
    \/ Normalize
    \/ Narrate
    \/ StoreClear
    \/ StoreUpdate

NextScan ==
    \/ \E url \in UrlInputs, lvl \in Levels : ScanRequest(url, lvl)
    \/ ScanSteps

ScanStepsButNormalize ==
    \/ SpiderOpen
    \/ SpiderStart
    \/ SpiderPoll
    \/ SpiderFetch
    \/ AscanStart
    \/ AscanPoll
    \/ AscanFetch
    \/ Narrate
    \/ StoreClear
    \/ StoreUpdate

ScanFairness == WF_vars(ScanStepsButNormalize) /\ []<>(pc # "normalize")

SpecScanFair == Init /\ [][NextScan]_vars /\ ScanFairness

(***************************************************************************)
(* The normalizer and the severity model on their own: every list of at    *)
(* most MaxLen raw findings of RawPool is simplified, then scored.         *)
(***************************************************************************)
MaxLen == 3

RECURSIVE SeqsUpTo(_, _)
SeqsUpTo(S, n) ==
    IF n = 0 THEN {<<>>}
    ELSE LET shorter == SeqsUpTo(S, n - 1)
         IN shorter \cup {Append(q, x) : q \in {t \in shorter : Len(t) = n - 1}, x \in S}

InitNorm ==
    /\ last_scan = EmptyDict
    /\ stored = FALSE
    /\ pc = "idle"
    /\ target = ""
    /\ level = 1
    /\ alerts = NoReply
    /\ ascan_id = None
    /\ elapsed = 0
    /\ final = <<>>
    /\ report = EmptyDict
    /\ scanResp = NoResp
    /\ storeBefore = EmptyDict
    /\ engineCalls = {}
    /\ ascanOutcome = "none"
    /\ injected = 0
    /\ narration = "none"
    /\ fetched = <<>>
    /\ spiderReadFailed = FALSE
    /\ rd = RdIdle
    /\ rawIn \in SeqsUpTo(RawPool, MaxLen)
    /\ normOut = <<>>
    /\ normPc = "input"

SimplifyStep ==
    /\ normPc = "input"
    /\ normOut' = simplify_alerts(rawIn)
    /\ normPc' = "simplified"
    /\ UNCHANGED <<last_scan, stored, scanVars, rd, rawIn>>

ScoreStep ==
    /\ normPc = "simplified"
    /\ normOut' = Finalize(normOut)
    /\ normPc' = "scored"
    /\ UNCHANGED <<last_scan, stored, scanVars, rd, rawIn>>

NextNorm == SimplifyStep \/ ScoreStep

SpecNorm == InitNorm /\ [][NextNorm]_vars

(***************************************************************************)
(* The bucket comprehension on its own (lines 201-213): every list of at   *)
(* most MaxScored findings whose scores are integers of 0..MaxScore is     *)
(* grouped and counted.  Only the score of a finding is read there.        *)
(***************************************************************************)
MaxScore == 10
MaxScored == 2

ScoreDomain == 0..MaxScore

InitBuckets ==
    /\ last_scan = EmptyDict
    /\ stored = FALSE
    /\ pc = "idle"
    /\ target = ""
    /\ level = 1
    /\ alerts = NoReply
    /\ ascan_id = None
    /\ elapsed = 0
    /\ final = <<>>
    /\ report = EmptyDict
    /\ scanResp = NoResp
    /\ storeBefore = EmptyDict
    /\ engineCalls = {}
    /\ ascanOutcome = "none"
    /\ injected = 0
    /\ narration = "none"
    /\ fetched = <<>>
    /\ spiderReadFailed = FALSE
    /\ rd = RdIdle
    /\ rawIn \in SeqsUpTo({[score |-> sc] : sc \in ScoreDomain}, MaxScored)
    /\ normOut = <<>>
    /\ normPc = "final"

\* lines 201-206 and 213: `grouped`, then the summary of its list lengths
BucketStep ==
    /\ normPc = "final"
    /\ normOut' = Summary(rawIn)
    /\ normPc' = "bucketed"
    /\ UNCHANGED <<last_scan, stored, scanVars, rd, rawIn>>

NextBuckets == BucketStep

SpecBuckets == InitBuckets /\ [][NextBuckets]_vars

(***************************************************************************)
(* Properties.                                                             *)
(***************************************************************************)
ReportKeys ==
    {"target", "level", "summary", "vulnerabilities", "ai_summary", "timestamp",
     "ascan_id"}

BeforeStoreWrite ==
    {"open", "spider_start", "spider_poll", "spider_fetch", "ascan_start",
     "ascan_poll", "ascan_fetch", "normalize", "narrate", "clear"}

\* C1: a validated scan request that fails at any later step ends with 500 and
\* an error text, and the store holds what it held when the request arrived;
\* no step before line 221 writes the store, and the store never holds a
\* partial report.
C1_FailedScanLeavesStore ==
    /\ (pc = "done" /\ scanResp.status = 500) =>
          /\ DOMAIN scanResp.body = {"error"}
          /\ last_scan = storeBefore
    /\ pc \in BeforeStoreWrite => last_scan = storeBefore
    /\ DOMAIN last_scan \in {{}, ReportKeys}

\* a scan failed in normalization (the refetched alerts were no list) while an
\* earlier report was cached
C1_Witness ==
    /\ pc = "done"
    /\ scanResp.status = 500
    /\ scanResp.body.error = "'str' object has no attribute 'append'"
    /\ storeBefore # EmptyDict

\* the stripped texts that are absolute URLs with a scheme
WellFormedUrls == {"http://a.test"}

\* C2: a scan request whose URL is missing, empty or not a well-formed absolute
\* URL is answered 400 with no engine call made and the store as it was.
C2_InvalidUrlRejected ==
    (pc # "idle" /\ target \notin WellFormedUrls) =>
        /\ pc = "done"
        /\ scanResp.status = 400
        /\ engineCalls = {}
        /\ last_scan = storeBefore

C2_Witness ==
    /\ pc = "done"
    /\ target = "not a url"
    /\ scanResp.status = 400
    /\ storeBefore # EmptyDict
    /\ last_scan = storeBefore

WafFindings(vulns) == {i \in DOMAIN vulns : vulns[i].name = WafName}

\* the response is a report with exactly one finding named WafName, of risk Medium
HasOneWaf(resp) ==
    /\ resp.status = 200
    /\ Cardinality(WafFindings(resp.body.vulnerabilities)) = 1
    /\ \A i \in WafFindings(resp.body.vulnerabilities) :
          resp.body.vulnerabilities[i].risk = "Medium"

\* C3 as claimed: at level 3 the result has exactly one synthetic finding of
\* risk Medium whether the active scan completed, timed out or its status read
\* failed.
C3_Original ==
    (pc = "done" /\ level = 3
        /\ (scanResp.status = 200 \/ ascanOutcome = "status_error")) =>
        HasOneWaf(scanResp)

\* C3 as amended: at level 3 every scan that succeeds (its active scan
\* completed or timed out) has exactly one finding named WafName, of risk
\* Medium, whatever the engine returned; a failed active-scan status read ends
\* the request with 500 and no findings.
C3_Amended ==
    /\ (pc = "done" /\ level = 3 /\ scanResp.status = 200) =>
          /\ HasOneWaf(scanResp)
          /\ injected = 1
          /\ ascanOutcome \in {"completed", "timeout"}
    /\ (pc = "done" /\ ascanOutcome = "status_error") =>
          /\ scanResp.status = 500
          /\ DOMAIN scanResp.body = {"error"}

\* a level 3 scan whose active scan timed out and whose engine findings already
\* held one named WafName (of risk High)
C3_Witness ==
    /\ pc = "done"
    /\ level = 3
    /\ scanResp.status = 200
    /\ ascanOutcome = "timeout"
    /\ Len(scanResp.body.vulnerabilities) = 2
    /\ scanResp.body.vulnerabilities[1].name = WafName

AscanCalls == {c \in engineCalls : c[1] \in {"ascan.scan", "ascan.status"}}

\* C4: a successful level 1 scan has a null job id, started no active scan and
\* appended no synthetic finding; a successful level 2 scan has a job id and
\* appended no synthetic finding.
C4_LevelOneAndTwo ==
    (pc = "done" /\ scanResp.status = 200) =>
        /\ level = 1 =>
              /\ scanResp.body.ascan_id = None
              /\ AscanCalls = {}
              /\ injected = 0
        /\ level = 2 =>
              /\ scanResp.body.ascan_id # None
              /\ injected = 0

C4_Witness ==
    /\ pc = "done"
    /\ scanResp.status = 200
    /\ level = 2
    /\ scanResp.body.ascan_id \in JobIds
    /\ <<"ascan.scan", target>> \in engineCalls

Names(vulns) == [i \in DOMAIN vulns |-> vulns[i].name]

\* C5 as claimed: in every report a finding of risk High has score 9 and is
\* counted in bucket High, one of risk Critical has score 10 and is counted in
\* bucket Critical; the findings XSS (High, twice) and SQLi (Critical) give the
\* summary Critical 1, High 1, Medium 0, Low 0.
C5_HighInBucketHigh ==
    last_scan # EmptyDict =>
        /\ \A i \in DOMAIN last_scan.vulnerabilities :
              LET v == last_scan.vulnerabilities[i]
              IN /\ v.risk = "High" => (v.score = 9 /\ BucketsOf(v.score) = {"High"})
                 /\ v.risk = "Critical" =>
                       (v.score = 10 /\ BucketsOf(v.score) = {"Critical"})
        /\ Names(last_scan.vulnerabilities) = <<"XSS", "SQLi">> =>
              /\ last_scan.vulnerabilities[1].urls = <<"http://a/x", "http://a/y">>
              /\ last_scan.summary =
                    [Critical |-> 1, High |-> 1, Medium |-> 0, Low |-> 0]

NoDuplicates(s) == \A a, b \in DOMAIN s : a # b => s[a] # s[b]

\* the first position of x in s
FirstAt(s, x) == CHOOSE i \in DOMAIN s : s[i] = x /\ \A j \in 1..(i - 1) : s[j] # x

\* the values a field takes in the raw findings of one name, in input order,
\* empty values left as they are
UrlsOf(raw, name) ==
    [i \in DOMAIN raw |->
        IF ResolveName(raw[i]) = name THEN ResolveUrl(raw[i]) ELSE None]

ParamsOf(raw, name) ==
    [i \in DOMAIN raw |-> IF ResolveName(raw[i]) = name THEN raw[i].param ELSE None]

\* `out` lists the distinct non-empty values of `vals`, in first-seen order
FirstSeenOrder(out, vals) ==
    /\ NoDuplicates(out)
    /\ {out[a] : a \in DOMAIN out} = {vals[i] : i \in DOMAIN vals} \ {None, ""}
    /\ \A a, b \in DOMAIN out : a < b => FirstAt(vals, out[a]) < FirstAt(vals, out[b])

\* C6: simplify_alerts gives one finding per distinct resolved name, in
\* first-seen order of the names; urls and params of a finding have no
\* duplicate and keep the first-seen order of their values.
C6_OneGroupPerName ==
    normPc = "simplified" =>
        LET names == [i \in DOMAIN rawIn |-> ResolveName(rawIn[i])]
        IN /\ FirstSeenOrder(Names(normOut), names)
           /\ \A j \in DOMAIN normOut :
                 /\ FirstSeenOrder(normOut[j].urls, UrlsOf(rawIn, normOut[j].name))
                 /\ FirstSeenOrder(normOut[j].params, ParamsOf(rawIn, normOut[j].name))

\* three raw findings, two names, the XSS url given twice (once as uri)
C6_Witness ==
    /\ normPc = "simplified"
    /\ rawIn = <<XssX, Sqli, XssUriOnly>>
    /\ Names(normOut) = <<"XSS", "SQLi">>
    /\ normOut[1].urls = <<"http://a/x">>

\* a step of a reader that reads last_scan
ReaderReads == DocRequest \/ DocRead \/ ChatRead

\* C7 as claimed: whenever a reader reads the store it holds the complete
\* contents it had before the scan request in progress, or that request's
\* complete new report.
C7_AtomicReplace ==
    [][ReaderReads =>
          \/ last_scan = storeBefore
          \/ (scanResp.status = 200 /\ last_scan = scanResp.body)]_vars

\* C8: after a successful scan the store is exactly the report returned, with
\* nothing of the report it replaced.
C8_LastWriteWins ==
    (pc = "done" /\ scanResp.status = 200) =>
        /\ DOMAIN scanResp.body = ReportKeys
        /\ last_scan = scanResp.body

\* a second successful scan replaced a report of another level and findings
C8_Witness ==
    /\ pc = "done"
    /\ scanResp.status = 200
    /\ storeBefore # EmptyDict
    /\ storeBefore.level # last_scan.level
    /\ Len(storeBefore.vulnerabilities) > Len(last_scan.vulnerabilities)
    /\ storeBefore.ascan_id # last_scan.ascan_id

AiMarkers == {AiUnavailable(e) : e \in AiErrors}

\* C9: a scan whose narration call failed goes on to store its report and ends
\* with 200; the report's ai_summary is the failure marker with the error.
C9_NarrationFailureContained ==
    narration = "failed" =>
        /\ pc \in {"clear", "update", "done"}
        /\ pc \in {"clear", "update"} => report.ai_summary \in AiMarkers
        /\ pc = "done" =>
              /\ scanResp.status = 200
              /\ scanResp.body.ai_summary \in AiMarkers
              /\ last_scan = scanResp.body

C9_Witness ==
    /\ narration = "failed"
    /\ pc = "done"
    /\ scanResp.status = 200
    /\ last_scan.ai_summary = AiUnavailable("quota exceeded")
    /\ Len(last_scan.vulnerabilities) > 0

\* s with a second copy of s[i] right after position i
InsertCopyAfter(s, i) == SubSeq(s, 1, i) \o <<s[i]>> \o SubSeq(s, i + 1, Len(s))

\* C10: a second copy of a raw finding right after the first does not change
\* the output of simplify_alerts.
C10_DuplicateIdempotent ==
    normPc = "simplified" =>
        \A i \in DOMAIN rawIn : simplify_alerts(InsertCopyAfter(rawIn, i)) = normOut

\* a list whose findings carry urls and params, so a copy appends both again
C10_Witness ==
    /\ normPc = "simplified"
    /\ rawIn = <<XssX, XssRich, NoName>>
    /\ simplify_alerts(<<XssX, XssX, XssRich, XssRich, NoName, NoName>>) = normOut

\* the bucket the claim gives a score
ClaimedBucket(score) ==
    IF score >= 9 THEN "Critical"
    ELSE IF score >= 6 THEN "High"
    ELSE IF score >= 3 THEN "Medium"
    ELSE "Low"

\* C11: every integer score of 0..10 is put in exactly one of the four lists,
\* Critical for 9 and more, High for 6..8, Medium for 3..5, Low below 3, so the
\* four summary counts add up to the number of findings.
C11_BucketsPartition ==
    normPc = "bucketed" =>
        /\ \A i \in DOMAIN rawIn :
              /\ Cardinality(BucketsOf(rawIn[i].score)) = 1
              /\ BucketsOf(rawIn[i].score) = {ClaimedBucket(rawIn[i].score)}
        /\ normOut["Critical"] + normOut["High"] + normOut["Medium"] + normOut["Low"]
              = Len(rawIn)

\* two findings on the lower edges of High and Critical
C11_Witness ==
    /\ normPc = "bucketed"
    /\ rawIn = <<[score |-> 6], [score |-> 9]>>
    /\ normOut = [Critical |-> 1, High |-> 1, Medium |-> 0, Low |-> 0]

\* C12 as claimed: a document request is answered 400 exactly when no scan has
\* completed successfully so far, and once a report is stored every step other
\* than the replacement by a later successful scan leaves the store as it is.
C12_ReportKeptOnceStored ==
    [][/\ DocRequest => ((rd'.status = 400) <=> ~stored)
       /\ (stored /\ ~(StoreClear \/ StoreUpdate)) => last_scan' = last_scan]_vars

\* C13: a progress query answers 200 with the percentage the engine gave, or
\* 500 with the error when the one status read failed or gave no number, and
\* leaves the store as it was.
C13_ProgressQuery ==
    [][(\E id \in JobIds : GetProgress(id)) =>
          /\ last_scan' = last_scan
          /\ IF IsInt(rd'.read)
             THEN /\ rd'.status = 200
                  /\ rd'.out = <<ToInt(rd'.read)>>
             ELSE /\ rd'.status = 500
                  /\ rd'.out = <<rd'.read>>]_vars

\* a progress query failed on an engine error while a report was stored
C13_Witness ==
    /\ rd.kind = "progress"
    /\ rd.status = 500
    /\ rd.out = <<"ZAP unreachable">>
    /\ last_scan # EmptyDict
    /\ last_scan = scanResp.body

\* the last non-empty value of vals, `default` when there is none
LastNonEmpty(vals, default) ==
    LET at == {i \in DOMAIN vals : Truthy(vals[i])}
    IN IF at = {} THEN default
       ELSE vals[CHOOSE i \in at : \A k \in at : k <= i]

\* the risk label a raw finding carries under any of its keys, if it has one
RiskLabel(a) == Or(Or(a.risk, a.riskdesc), a.severity)

RiskLabelsOf(raw, name) ==
    [i \in DOMAIN raw |-> IF ResolveName(raw[i]) = name THEN RiskLabel(raw[i]) ELSE None]

\* C14 as claimed: the risk of a normalized finding is the last non-empty risk
\* label among the raw findings of its name; a later raw finding of the name
\* that has no risk label leaves the risk as it was.
C14_LastNonEmptyRisk ==
    normPc = "simplified" =>
        \A j \in DOMAIN normOut :
            normOut[j].risk =
                LastNonEmpty(RiskLabelsOf(rawIn, normOut[j].name), "Informational")

\* the description a raw finding carries under any of its keys, if it has one
DescriptionGiven(a) == Or(Or(a.description, a.desc), a.evidence)

DescriptionsOf(raw, name) ==
    [i \in DOMAIN raw |->
        IF ResolveName(raw[i]) = name THEN DescriptionGiven(raw[i]) ELSE None]

SolutionsOf(raw, name) ==
    [i \in DOMAIN raw |->
        IF ResolveName(raw[i]) = name THEN ResolveSolution(raw[i]) ELSE None]

ReferencesOf(raw, name) ==
    [i \in DOMAIN raw |->
        IF ResolveName(raw[i]) = name THEN ResolveReference(raw[i]) ELSE None]

\* C15 as claimed: every raw finding, one that has only a URL included, has a
\* group of its name; the group's description, solution and reference are the
\* last non-empty ones given by the raw findings of the name, so a finding
\* with only a URL leaves the description of the earlier findings in place
\* (nothing is said of the description when no finding of the name gives one).
C15_UrlOnlyKeepsDescription ==
    normPc = "simplified" =>
        /\ \A i \in DOMAIN rawIn :
              \E j \in DOMAIN normOut : normOut[j].name = ResolveName(rawIn[i])
        /\ \A j \in DOMAIN normOut :
              /\ normOut[j].description =
                    LastNonEmpty(DescriptionsOf(rawIn, normOut[j].name),
                                 normOut[j].description)
              /\ normOut[j].solution =
                    LastNonEmpty(SolutionsOf(rawIn, normOut[j].name), "")
              /\ normOut[j].reference =
                    LastNonEmpty(ReferencesOf(rawIn, normOut[j].name), "")

StatusReads == StatusReplies \cup EngineErrors

\* C16: in the spider loop a status read that raises or gives no number
\* counts as 0: the request is not failed by it, polling goes on while no
\* more than 60 time units have passed, and the loop is left for the fetch of
\* the findings when a read gives 100 or more, or more than 60 have passed.
C16_SpiderStatusErrorTolerated ==
    [][\A reply \in StatusReads, lat \in Latencies :
          SpiderPollOn(reply, lat) =>
              /\ scanResp' = scanResp
              /\ last_scan' = last_scan
              /\ pc' \in {"spider_poll", "spider_fetch"}
              /\ (~IsInt(reply) =>
                    (/\ spiderReadFailed'
                     /\ (pc' = "spider_fetch") <=> (elapsed + lat > SpiderTimeout)))
              /\ (IsInt(reply) =>
                    ((pc' = "spider_fetch") <=>
                        (ToInt(reply) >= 100 \/ elapsed + lat > SpiderTimeout)))]_vars

\* the spider loop went on after a failed status read and was then left; the
\* findings are about to be fetched
C16_Witness ==
    /\ pc = "spider_fetch"
    /\ spiderReadFailed
    /\ scanResp = NoResp
    /\ <<"spider.status", "spider">> \in engineCalls

\* C17: in the active-scan loop a status read that raises or gives no number
\* ends the request with 500 and an error text, with nothing normalized and
\* the store as it was; the loop is only run for level 2 and more.
C17_AscanStatusErrorPropagates ==
    [][\A reply \in StatusReads, lat \in Latencies :
          (AscanPollOn(reply, lat) /\ ~IsInt(reply)) =>
              /\ level >= 2
              /\ pc' = "done"
              /\ scanResp'.status = 500
              /\ DOMAIN scanResp'.body = {"error"}
              /\ ascanOutcome' = "status_error"
              /\ final = <<>> /\ final' = <<>>
              /\ injected' = 0
              /\ last_scan' = last_scan
              /\ last_scan' = storeBefore]_vars

\* an active-scan status read gave no number while a report was stored
C17_Witness ==
    /\ pc = "done"
    /\ ascanOutcome = "status_error"
    /\ scanResp = ErrorResp(500, "does_not_exist")
    /\ level = 3
    /\ storeBefore # EmptyDict
    /\ last_scan = storeBefore

\* C18: every accepted scan request comes to its response, 200 or 500,
\* whatever the status reads give (never 100, or an error every time), given
\* that every engine call returns and the clock advances.
C18_ScanTerminates ==
    (pc \notin {"idle", "done"}) ~> (pc = "done" /\ scanResp.status \in {200, 500})

\* a scan whose active scan never reported completion ended with a report
C18_Witness ==
    /\ pc = "done"
    /\ ascanOutcome = "timeout"
    /\ scanResp.status = 200
    /\ level = 2

\* C19: for level 2 and more the findings normalized are exactly those of the
\* fetch after the active-scan loop (with the synthetic finding at level 3),
\* whatever the fetch after spidering gave, and they are the report's findings.
C19_RefetchReplaces ==
    /\ (pc = "narrate" /\ level >= 2) =>
          /\ Len(fetched) = 2
          /\ final = Finalize(simplify_alerts(
                          Collected(fetched[2].items, level, target)))
    /\ (pc = "narrate" /\ level < 2) =>
          /\ Len(fetched) = 1
          /\ final = Finalize(simplify_alerts(
                          Collected(fetched[1].items, level, target)))
    /\ pc \in {"clear", "update"} => report.vulnerabilities = final

\* the spidering fetch gave XSS and SQLi, the fetch after the active scan
\* neither of them
C19_Witness ==
    /\ pc = "narrate"
    /\ level = 2
    /\ fetched = <<ListReply(<<XssX, XssY, Sqli>>), ListReply(<<WafHigh, SqlInjection>>)>>
    /\ Names(final) = <<WafName, "SQL Injection">>

\* C20: a request of level 0 or less makes no active-scan call, appends no
\* synthetic finding and reports a null job id; a successful request of a
\* level above 3 has started the active scan, reports its job id and has
\* appended no synthetic finding.
C20_LevelsOutsideOneToThree ==
    /\ level <= 0 =>
          /\ AscanCalls = {}
          /\ ascanOutcome = "none"
          /\ injected = 0
          /\ ascan_id = None
          /\ ((pc = "done" /\ scanResp.status = 200) => scanResp.body.ascan_id = None)
    /\ (level > 3 /\ pc = "done" /\ scanResp.status = 200) =>
          /\ <<"ascan.scan", target>> \in engineCalls
          /\ scanResp.body.ascan_id \in JobIds
          /\ injected = 0
          /\ ascanOutcome \in {"completed", "timeout"}

\* a level 4 scan went through the active scan and reported the engine's
\* findings only
C20_Witness ==
    /\ pc = "done"
    /\ level = 4
    /\ scanResp.status = 200
    /\ scanResp.body.ascan_id = "7"
    /\ Names(scanResp.body.vulnerabilities) = <<"XSS", "SQLi">>
    /\ injected = 0

====
